---- MODULE Spec2Model ----
(***************************************************************************)
(* A model of svg2pdf's render core (src/src/render/mod.rs): the two entry *)
(* points tree_to_stream and tree_to_xobject, the node dispatcher          *)
(* (impl Render for Node) and the external-image placement                 *)
(* (render_external_image).  A scene tree is walked in tree order, one     *)
(* node per step; the call stack of the recursion is the stack `groups`.   *)
(* The session mirrors tests/src/api.rs: a tree is converted once, and,    *)
(* when a provider was configured, once more without a provider.           *)
(***************************************************************************)
EXTENDS Integers, Sequences, FiniteSets, TLC

\* Number of nodes below the root group of a scene tree.
MaxNodes == 2

\* The save-depth limit of the checked graphics-state save.
MaxSaveDepth == 28

(***************************************************************************)
(* Scene trees.  A tree is the preorder list of its nodes; a group is      *)
(* closed by "End".  tree.root() is always a group.                        *)
(***************************************************************************)
Leaves == {"Path", "ImageVisible", "ImageHidden", "Text"}

GroupKinds == {"Group", "GroupIsolated"}

RECURSIVE Forests(_)
Forests(n) ==
    IF n = 0 THEN {<<>>}
    ELSE {<<l>> \o f : l \in Leaves, f \in Forests(n - 1)}
         \cup UNION {{<<g>> \o c \o <<"End">> \o r :
                         g \in GroupKinds, c \in Forests(k), r \in Forests(n - 1 - k)} :
                     k \in 0..(n - 1)}

Trees == {<<"Group">> \o f \o <<"End">> : f \in UNION {Forests(n) : n \in 0..MaxNodes}}

\* tree.size(): declared canvas width and height, both positive.
Sizes == {[width |-> 4, height |-> 2]}

(***************************************************************************)
(* f32 values: a finite integer value, or a non-finite one (infinity, NaN).*)
(***************************************************************************)
F(n) == [fin |-> TRUE, v |-> n]

Infinity == [fin |-> FALSE, v |-> 1]

NaN == [fin |-> FALSE, v |-> 0]

(***************************************************************************)
(* Names are byte strings.  "E0", "x0" and a byte string that is not UTF-8.*)
(***************************************************************************)
NameE0 == <<69, 48>>

NameX0 == <<120, 48>>

NameBad == <<69, 195>>

\* The bytes of s from index i on are well-formed UTF-8 (String::from_utf8).
RECURSIVE Utf8Valid(_, _)
Utf8Valid(s, i) ==
    LET n == Len(s)
        cont(j) == j <= n /\ s[j] >= 128 /\ s[j] <= 191
        b == s[i]
    IN  IF i > n THEN TRUE
        ELSE IF b < 128 THEN Utf8Valid(s, i + 1)
        ELSE IF b >= 194 /\ b <= 223 THEN cont(i + 1) /\ Utf8Valid(s, i + 2)
        ELSE IF b = 224 THEN
            i + 1 <= n /\ s[i + 1] >= 160 /\ s[i + 1] <= 191 /\ cont(i + 2)
            /\ Utf8Valid(s, i + 3)
        ELSE IF (b >= 225 /\ b <= 236) \/ b = 238 \/ b = 239 THEN
            cont(i + 1) /\ cont(i + 2) /\ Utf8Valid(s, i + 3)
        ELSE IF b = 237 THEN
            i + 1 <= n /\ s[i + 1] >= 128 /\ s[i + 1] <= 159 /\ cont(i + 2)
            /\ Utf8Valid(s, i + 3)
        ELSE IF b = 240 THEN
            i + 1 <= n /\ s[i + 1] >= 144 /\ s[i + 1] <= 191 /\ cont(i + 2)
            /\ cont(i + 3) /\ Utf8Valid(s, i + 4)
        ELSE IF b >= 241 /\ b <= 243 THEN
            cont(i + 1) /\ cont(i + 2) /\ cont(i + 3) /\ Utf8Valid(s, i + 4)
        ELSE IF b = 244 THEN
            i + 1 <= n /\ s[i + 1] >= 128 /\ s[i + 1] <= 143 /\ cont(i + 2)
            /\ cont(i + 3) /\ Utf8Valid(s, i + 4)
        ELSE FALSE

\* String::from_utf8(ext.name): the string (same bytes) or an error.
from_utf8(bytes) ==
    IF Utf8Valid(bytes, 1) THEN [ok |-> TRUE, str |-> bytes]
    ELSE [ok |-> FALSE, str |-> <<>>]

(***************************************************************************)
(* ExternalImage descriptors a caller's provider may return.               *)
(***************************************************************************)
Ext(n, r, w, h) == [name |-> n, ref |-> r, width |-> w, height |-> h]

GoodExternalImages ==
    { Ext(NameE0, 50000, F(2), F(3)),
      Ext(NameE0, 50001, F(2), F(3)),
      Ext(NameX0, 50000, F(5), F(1)) }

BadExternalImages ==
    { Ext(NameE0, 50000, F(0), F(3)),
      Ext(NameE0, 50000, F(2), F(-1)),
      Ext(NameE0, 50000, Infinity, F(3)),
      Ext(NameE0, 50000, F(2), NaN),
      Ext(NameBad, 50000, F(2), F(3)) }

ExternalImages == GoodExternalImages \cup BadExternalImages

\* Option<ExternalImage>::None
NoneExt == Ext(<<>>, 0, F(0), F(0))

(***************************************************************************)
(* Conversion options and the compile-time features.                      *)
(***************************************************************************)
OptionSets ==
    [image_provider : BOOLEAN, compress : BOOLEAN, embed_text : BOOLEAN,
     feature_image : BOOLEAN, feature_text : BOOLEAN]

\* Nesting depth of the caller's content stream when tree_to_stream is entered.
CallerDepths == {0, MaxSaveDepth - 2, MaxSaveDepth}

(***************************************************************************)
(* The content-stream writer (pdf_writer::Content): the operators appended *)
(* by this call and the graphics-state nesting depth q_depth.              *)
(***************************************************************************)
Op(o, n, m) == [op |-> o, name |-> n, m |-> m]

OpSave == Op("q", <<>>, <<>>)

OpRestore == Op("Q", <<>>, <<>>)

NewContent == [ops |-> <<>>, depth |-> 0]

Emit(content, o) == [content EXCEPT !.ops = Append(@, o)]

\* content.save_state(): q
save_state(content) == [ops |-> Append(content.ops, OpSave), depth |-> content.depth + 1]

\* content.restore_state(): Q
restore_state(content) ==
    [ops |-> Append(content.ops, OpRestore),
     depth |-> IF content.depth > 0 THEN content.depth - 1 ELSE 0]

\* content.save_state_checked(): a save that would exceed the limit is an
\* error and emits nothing.
save_state_checked(content) ==
    IF content.depth + 1 > MaxSaveDepth
    THEN [ok |-> FALSE, content |-> content]
    ELSE [ok |-> TRUE, content |-> save_state(content)]

\* content.transform(m): cm
transform(content, m) == Emit(content, Op("cm", <<>>, m))

\* content.x_object(name): Do
x_object(content, name) == Emit(content, Op("Do", name, <<>>))

\* Transform::from_row(sx, ky, kx, sy, tx, ty)
from_row(sx, ky, kx, sy, tx, ty) ==
    [sx |-> sx, kx |-> kx, ky |-> ky, sy |-> sy, tx |-> tx, ty |-> ty]

\* TransformExt::to_pdf_transform: the six numbers in PDF order.
to_pdf_transform(t) == <<t.sx, t.ky, t.kx, t.sy, t.tx, t.ty>>

\* Size::from_wh(width, height): both finite and positive, or None.
Size_from_wh(w, h) ==
    IF w.fin /\ h.fin /\ w.v > 0 /\ h.v > 0
    THEN [ok |-> TRUE, width |-> w.v, height |-> h.v]
    ELSE [ok |-> FALSE, width |-> 0, height |-> 0]

(***************************************************************************)
(* The Resource Container: entries (category, name, reference) in the      *)
(* order they were registered, and the number of names the core generated. *)
(***************************************************************************)
NewResourceContainer == [entries |-> <<>>, generated |-> 0]

HasName(rc, cat, name) ==
    \E i \in 1..Len(rc.entries) : rc.entries[i].cat = cat /\ rc.entries[i].name = name

\* Registering a name the category already holds is refused.
add_resource(rc, cat, name, ref) ==
    IF HasName(rc, cat, name) THEN rc
    ELSE [rc EXCEPT !.entries = Append(@, [cat |-> cat, name |-> name, ref |-> ref])]

\* rc.add_external_x_object(name, ref): the caller's name and reference.
add_external_x_object(rc, name, ref) == add_resource(rc, "XObject", name, ref)

\* The name the core generates for its k-th resource: a prefix byte and a digit.
GeneratedName(prefix, k) == <<prefix, 48 + k>>

\* rc.add_x_object(ref): a generated name "x<k>".
add_x_object(rc, ref) ==
    [name |-> GeneratedName(120, rc.generated),
     rc |-> [add_resource(rc, "XObject", GeneratedName(120, rc.generated), ref)
                EXCEPT !.generated = @ + 1]]

\* rc.add_font(ref): a generated name "f<k>".
add_font(rc, ref) ==
    [name |-> GeneratedName(102, rc.generated),
     rc |-> [add_resource(rc, "Font", GeneratedName(102, rc.generated), ref)
                EXCEPT !.generated = @ + 1]]

\* rc.finish(&mut resources): every entry written once.
rc_finish(rc) == rc.entries

(***************************************************************************)
(* The Conversion Context: the reference allocator and finish_content.     *)
(***************************************************************************)
\* ctx.alloc_ref(): the next unused reference.
alloc_ref(next) == [ref |-> next, next |-> next + 1]

\* ctx.finish_content(content): the stored stream, compressed iff configured.
finish_content(content, opts) == [ops |-> content.ops, compressed |-> opts.compress]

\* An object of the chunk.
Object(ref, kind, stream, bbox, matrix, filter, resources) ==
    [ref |-> ref, kind |-> kind, stream |-> stream, bbox |-> bbox,
     matrix |-> matrix, filter |-> filter, resources |-> resources]

NoStream == [ops |-> <<>>, compressed |-> FALSE]

(***************************************************************************)
(* Leaf renderers and the Group Compositor (render/path.rs, image.rs,      *)
(* text.rs, group.rs).  Each returns its result with the content stream,   *)
(* the Resource Container, the chunk and the allocator as it leaves them.  *)
(***************************************************************************)
Out(res, content, rc, ch, next) ==
    [res |-> res, content |-> content, rc |-> rc, chunk |-> ch, next |-> next]

\* Pixel size of an image node's own data.
ImageSize == [width |-> 2, height |-> 3]

\* path::render: paints the path (a node of the tree) under the accumulated
\* transform.
path_render(path, content, rc, ch, next, accumulated) ==
    Out("Ok", Emit(content, Op("path", <<path>>, to_pdf_transform(accumulated))),
        rc, ch, next)

\* image::render: encodes the image into the chunk and places it.
image_render(is_visible, opts, content, rc, ch, next) ==
    IF ~is_visible THEN Out("Ok", content, rc, ch, next)
    ELSE LET a == alloc_ref(next)
             obj == Object(a.ref, "Image", NoStream, <<>>, <<>>, opts.compress, <<>>)
             reg == add_x_object(rc, a.ref)
             sv == save_state_checked(content)
             m == to_pdf_transform(from_row(ImageSize.width, 0, 0, -ImageSize.height,
                                            0, ImageSize.height))
         IN  IF ~sv.ok
             THEN Out("StackOverflowGuard", sv.content, reg.rc, Append(ch, obj), a.next)
             ELSE Out("Ok", restore_state(x_object(transform(sv.content, m), reg.name)),
                      reg.rc, Append(ch, obj), a.next)

\* text::render: embeds a font and shows the text.
text_render(content, rc, ch, next, accumulated) ==
    LET a == alloc_ref(next)
        obj == Object(a.ref, "Font", NoStream, <<>>, <<>>, FALSE, <<>>)
        reg == add_font(rc, a.ref)
    IN  Out("Ok", Emit(content, Op("text", reg.name, to_pdf_transform(accumulated))),
            reg.rc, Append(ch, obj), a.next)

Identity == from_row(1, 0, 0, 1, 0, 0)

\* group::render over text.flattened(): an inline group holding the outline path.
flattened_text_render(text, content, rc, ch, next, accumulated) ==
    LET sv == save_state_checked(content)
        inner == path_render(text, transform(sv.content, to_pdf_transform(Identity)),
                             rc, ch, next, accumulated)
    IN  IF ~sv.ok THEN Out("StackOverflowGuard", sv.content, rc, ch, next)
        ELSE Out("Ok", restore_state(inner.content), rc, ch, next)

(***************************************************************************)
(* Faulty variants of the operators below, used to show that the           *)
(* properties depend on them.                                              *)
(***************************************************************************)
\* render_external_image without the vertical flip.
M_render_external_image_no_flip(is_visible, ext, content, rc) ==
    IF ~is_visible THEN [res |-> "Ok", content |-> content, rc |-> rc]
    ELSE LET image_size == Size_from_wh(ext.width, ext.height)
             name_str == from_utf8(ext.name)
             rc1 == add_external_x_object(rc, name_str.str, ext.ref)
             sv == save_state_checked(content)
             m == to_pdf_transform(from_row(image_size.width, 0, 0, image_size.height,
                                            0, 0))
         IN  IF ~image_size.ok \/ ~name_str.ok
             THEN [res |-> "InvalidImage", content |-> content, rc |-> rc]
             ELSE IF ~sv.ok
                 THEN [res |-> "StackOverflowGuard", content |-> sv.content, rc |-> rc1]
             ELSE [res |-> "Ok",
                   content |-> restore_state(x_object(transform(sv.content, m),
                                                      name_str.str)),
                   rc |-> rc1]

\* render_external_image taking the name bytes as they are.
M_render_external_image_unchecked_name(is_visible, ext, content, rc) ==
    IF ~is_visible THEN [res |-> "Ok", content |-> content, rc |-> rc]
    ELSE LET image_size == Size_from_wh(ext.width, ext.height)
             rc1 == add_external_x_object(rc, ext.name, ext.ref)
             sv == save_state_checked(content)
             m == to_pdf_transform(from_row(image_size.width, 0, 0, -image_size.height,
                                            0, image_size.height))
         IN  IF ~image_size.ok
             THEN [res |-> "InvalidImage", content |-> content, rc |-> rc]
             ELSE IF ~sv.ok
                 THEN [res |-> "StackOverflowGuard", content |-> sv.content, rc |-> rc1]
             ELSE [res |-> "Ok",
                   content |-> restore_state(x_object(transform(sv.content, m), ext.name)),
                   rc |-> rc1]

(***************************************************************************)
(* render_external_image (mod.rs 78-116).                                  *)
(***************************************************************************)
render_external_image(is_visible, ext, content, rc) ==
    IF ~is_visible THEN [res |-> "Ok", content |-> content, rc |-> rc]
    ELSE LET image_size == Size_from_wh(ext.width, ext.height)
             name_str == from_utf8(ext.name)
             rc1 == add_external_x_object(rc, name_str.str, ext.ref)
             sv == save_state_checked(content)
             m == to_pdf_transform(from_row(image_size.width, 0, 0, -image_size.height,
                                            0, image_size.height))
         IN  IF ~image_size.ok THEN [res |-> "InvalidImage", content |-> content, rc |-> rc]
             ELSE IF ~name_str.ok
                 THEN [res |-> "InvalidImage", content |-> content, rc |-> rc]
             ELSE IF ~sv.ok
                 THEN [res |-> "StackOverflowGuard", content |-> sv.content, rc |-> rc1]
             ELSE [res |-> "Ok",
                   content |-> restore_state(x_object(transform(sv.content, m),
                                                      name_str.str)),
                   rc |-> rc1]

(***************************************************************************)
(* impl Render for Node (mod.rs 129-195), one operator per arm.            *)
(***************************************************************************)
\* ctx.options.image_provider.as_ref().and_then(|p| p(image))
provider_result(opts, answer) == IF opts.image_provider THEN answer ELSE NoneExt

\* Events of one image dispatch, in the order the code reaches them.
ImageEvents(opts, answer, arm) ==
    (IF opts.image_provider THEN <<"offered">> ELSE <<>>)
    \o <<IF provider_result(opts, answer) # NoneExt THEN "substituted" ELSE "declined">>
    \o arm

\* Node::Image, with a declining provider ending the dispatch.
M_render_image_declined_skips(is_visible, answer, opts, content, rc, ch, next) ==
    LET ext == provider_result(opts, answer)
        e == render_external_image(is_visible, ext, content, rc)
        l == image_render(is_visible, opts, content, rc, ch, next)
    IN  IF ext # NoneExt
        THEN [out |-> Out(e.res, e.content, e.rc, ch, next),
              events |-> ImageEvents(opts, answer, <<"external">>)]
        ELSE IF opts.feature_image /\ ~opts.image_provider
        THEN [out |-> l, events |-> ImageEvents(opts, answer, <<"leaf">>)]
        ELSE [out |-> Out("Ok", content, rc, ch, next),
              events |-> ImageEvents(opts, answer, <<"skipped">>)]

\* Node::Image, with the disabled feature reported as an error.
M_render_image_disabled_fails(is_visible, answer, opts, content, rc, ch, next) ==
    LET ext == provider_result(opts, answer)
        e == render_external_image(is_visible, ext, content, rc)
        l == image_render(is_visible, opts, content, rc, ch, next)
    IN  IF ext # NoneExt
        THEN [out |-> Out(e.res, e.content, e.rc, ch, next),
              events |-> ImageEvents(opts, answer, <<"external">>)]
        ELSE IF opts.feature_image
        THEN [out |-> l, events |-> ImageEvents(opts, answer, <<"leaf">>)]
        ELSE [out |-> Out("UnsupportedFeature", content, rc, ch, next),
              events |-> ImageEvents(opts, answer, <<"skipped">>)]

\* Node::Image, with the visibility test moved before the provider.
M_render_image_hidden_first(is_visible, answer, opts, content, rc, ch, next) ==
    LET ext == provider_result(opts, answer)
        e == render_external_image(is_visible, ext, content, rc)
        l == image_render(is_visible, opts, content, rc, ch, next)
    IN  IF ~is_visible
        THEN [out |-> Out("Ok", content, rc, ch, next), events |-> <<"skipped">>]
        ELSE IF ext # NoneExt
        THEN [out |-> Out(e.res, e.content, e.rc, ch, next),
              events |-> ImageEvents(opts, answer, <<"external">>)]
        ELSE IF opts.feature_image
        THEN [out |-> l, events |-> ImageEvents(opts, answer, <<"leaf">>)]
        ELSE [out |-> Out("Ok", content, rc, ch, next),
              events |-> ImageEvents(opts, answer, <<"skipped">>)]

\* Node::Image
render_image(is_visible, answer, opts, content, rc, ch, next) ==
    LET ext == provider_result(opts, answer)
        e == render_external_image(is_visible, ext, content, rc)
        l == image_render(is_visible, opts, content, rc, ch, next)
    IN  IF ext # NoneExt
        THEN [out |-> Out(e.res, e.content, e.rc, ch, next),
              events |-> ImageEvents(opts, answer, <<"external">>)]
        ELSE IF opts.feature_image
        THEN [out |-> l, events |-> ImageEvents(opts, answer, <<"leaf">>)]
        ELSE [out |-> Out("Ok", content, rc, ch, next),
              events |-> ImageEvents(opts, answer, <<"skipped">>)]

\* Node::Text
render_text(text, opts, content, rc, ch, next, accumulated) ==
    IF opts.feature_text
    THEN IF opts.embed_text
         THEN text_render(content, rc, ch, next, accumulated)
         ELSE flattened_text_render(text, content, rc, ch, next, accumulated)
    ELSE Out("Ok", content, rc, ch, next)

\* Node::Path
render_path(path, content, rc, ch, next, accumulated) ==
    path_render(path, content, rc, ch, next, accumulated)

(***************************************************************************)
(* tree_to_stream (mod.rs 24-43) and tree_to_xobject (mod.rs 46-71), each  *)
(* split at the call it makes into the tree.                               *)
(***************************************************************************)
\* The axis flip translated by the width instead of the height.
M_initial_transform_width(sz) == from_row(1, 0, 0, -1, 0, sz.width)

\* From PDF coordinate system to SVG coordinate system.
initial_transform(sz) == from_row(1, 0, 0, -1, 0, sz.height)

\* Lines 31-37: the checked save and the axis flip.
tree_to_stream_begin(sz, content) ==
    LET sv == save_state_checked(content)
    IN  IF ~sv.ok THEN [res |-> "StackOverflowGuard", content |-> sv.content]
        ELSE [res |-> "Ok",
              content |-> transform(sv.content, to_pdf_transform(initial_transform(sz)))]

\* tree_to_stream dropping the root group's error.
M_tree_to_stream_end_swallow(ret, content) ==
    [res |-> "Ok", content |-> restore_state(content)]

\* Lines 39-42: `?` on the root group's result, then the restore.
tree_to_stream_end(ret, content) ==
    IF ret # "Ok" THEN [res |-> ret, content |-> content]
    ELSE [res |-> "Ok", content |-> restore_state(content)]

\* tree_to_xobject reading the allocator without advancing it.
M_tree_to_xobject_begin_no_bump(next) == [x_ref |-> next, next |-> next]

\* Lines 47-52: the wrapper's reference is allocated before the tree is rendered.
tree_to_xobject_begin(next) ==
    LET a == alloc_ref(next) IN [x_ref |-> a.ref, next |-> a.next]

\* tree.size().to_non_zero_rect(0.0, 0.0).to_pdf_rect()
bbox_pdf_rect(sz) == <<0, 0, 0 + sz.width, 0 + sz.height>>

\* tree_to_xobject finishing its Resource Container twice.
M_tree_to_xobject_end_finish_twice(ret, ref, sz, opts, content, rc, ch) ==
    IF ret # "Ok" THEN [res |-> ret, ref |-> 0, chunk |-> ch, finished |-> 0]
    ELSE [res |-> "Ok", ref |-> ref,
          chunk |-> Append(ch, Object(ref, "Form", finish_content(content, opts),
                                      bbox_pdf_rect(sz),
                                      <<<<1, sz.width>>, 0, 0, <<1, sz.height>>, 0, 0>>,
                                      opts.compress, rc_finish(rc) \o rc_finish(rc))),
          finished |-> 2]

\* Lines 53-70: `?` on tree_to_stream's result, then the form XObject.
tree_to_xobject_end(ret, ref, sz, opts, content, rc, ch) ==
    IF ret # "Ok" THEN [res |-> ret, ref |-> 0, chunk |-> ch, finished |-> 0]
    ELSE [res |-> "Ok", ref |-> ref,
          chunk |-> Append(ch, Object(ref, "Form", finish_content(content, opts),
                                      bbox_pdf_rect(sz),
                                      <<<<1, sz.width>>, 0, 0, <<1, sz.height>>, 0, 0>>,
                                      opts.compress, rc_finish(rc))),
          finished |-> 1]

(***************************************************************************)
(* State.                                                                  *)
(***************************************************************************)
VARIABLES
    tree,       \* the scene tree being converted
    size,       \* tree.size()
    options,    \* ctx.options and the compiled features
    entry,      \* the entry point called, and the caller's stream depth
    run,        \* 1: the first conversion; 2: the one without a provider
    pc,         \* where the call chain stands
    pos,        \* the node being dispatched
    groups,     \* the open group::render calls, outermost first
    contents,   \* the content streams being written, the active one last
    rcs,        \* their Resource Containers
    next_ref,   \* the allocator of ctx
    chunk,      \* the objects inserted into the chunk
    x_ref,      \* tree_to_xobject's reference
    ret,        \* the result the last returned call handed to its caller
    result,     \* the result the entry point returned
    ret_ref,    \* the reference tree_to_xobject returned
    finished,   \* how often tree_to_xobject finished its Resource Container
    raised,     \* the error as it was raised
    log,        \* the events of the image dispatches
    first       \* the outcome of the first conversion

vars == <<tree, size, options, entry, run, pc, pos, groups, contents, rcs, next_ref,
          chunk, x_ref, ret, result, ret_ref, finished, raised, log, first>>

inputs == <<tree, size, entry>>

Entries ==
    {[fn |-> "tree_to_xobject", depth |-> 0]}
    \cup {[fn |-> "tree_to_stream", depth |-> d] : d \in CallerDepths}

Top(s) == s[Len(s)]

SetTop(s, v) == [s EXCEPT ![Len(s)] = v]

Pop(s) == SubSeq(s, 1, Len(s) - 1)

\* An event of the dispatch of image node p; ext is what the provider gave.
Event(e, p, ext) == [ev |-> e, pos |-> p, ext |-> ext]

Events(es, p, ext) == [i \in 1..Len(es) |-> Event(es[i], p, ext)]

NoOutcome == [result |-> "None", ref |-> 0, ops |-> <<>>, chunk |-> <<>>,
              entries |-> <<>>, declined |-> FALSE]

\* Where an error raised inside the tree goes first.
AfterError(gs) == IF gs = <<>> THEN "stream_end" ELSE "unwind"

\* The accumulated transform: the axis flip composed with the (identity)
\* transforms of the open groups.
accumulated_transform == initial_transform(size)

\* The streams and containers a caller of tree_to_stream passes in.
CallerContents(e) ==
    IF e.fn = "tree_to_stream" THEN <<[ops |-> <<>>, depth |-> e.depth]>> ELSE <<>>

CallerContainers(e) ==
    IF e.fn = "tree_to_stream" THEN <<NewResourceContainer>> ELSE <<>>

Init ==
    /\ tree \in Trees
    /\ size \in Sizes
    /\ options \in OptionSets
    /\ entry \in Entries
    /\ run = 1
    /\ pc = "start"
    /\ pos = 1
    /\ groups = <<>>
    /\ contents = CallerContents(entry)
    /\ rcs = CallerContainers(entry)
    /\ next_ref = 1
    /\ chunk = <<>>
    /\ x_ref = 0
    /\ ret = "None"
    /\ result = "None"
    /\ ret_ref = 0
    /\ finished = 0
    /\ raised = "None"
    /\ log = <<>>
    /\ first = NoOutcome

(***************************************************************************)
(* tree_to_xobject, up to its call of tree_to_stream.                      *)
(***************************************************************************)
TreeToXObjectBegin ==
    /\ pc = "start"
    /\ entry.fn = "tree_to_xobject"
    /\ LET b == tree_to_xobject_begin(next_ref)
       IN  /\ x_ref' = b.x_ref
           /\ next_ref' = b.next
    /\ rcs' = <<NewResourceContainer>>
    /\ contents' = <<NewContent>>
    /\ pc' = "tree_to_stream"
    /\ UNCHANGED <<inputs, options, run, pos, groups, chunk, ret, result, ret_ref,
                   finished, raised, log, first>>

(***************************************************************************)
(* tree_to_stream, up to its call of group::render on the root.            *)
(***************************************************************************)
TreeToStreamBegin ==
    /\ pc = (IF entry.fn = "tree_to_stream" THEN "start" ELSE "tree_to_stream")
    /\ LET b == tree_to_stream_begin(size, Top(contents))
       IN  /\ contents' = SetTop(contents, b.content)
           /\ ret' = b.res
           /\ raised' = IF b.res = "Ok" THEN raised ELSE b.res
           /\ IF b.res = "Ok" THEN pc' = "render" /\ UNCHANGED <<result>>
              ELSE IF entry.fn = "tree_to_xobject"
                   THEN pc' = "xobject_end" /\ UNCHANGED <<result>>
                   ELSE pc' = "done" /\ result' = b.res
    /\ UNCHANGED <<inputs, options, run, pos, groups, rcs, next_ref, chunk, x_ref,
                   ret_ref, finished, log, first>>

(***************************************************************************)
(* The Group Compositor: group::render, entered from tree_to_stream for    *)
(* the root and from the Node::Group arm for every other group.            *)
(***************************************************************************)
\* An inline group: checked save, then the group's own transform.
inline_group_begin(content) ==
    LET sv == save_state_checked(content)
    IN  IF ~sv.ok THEN [res |-> "StackOverflowGuard", content |-> sv.content]
        ELSE [res |-> "Ok", content |-> transform(sv.content, to_pdf_transform(Identity))]

\* An isolated group, finished: its form object, its name in the parent's
\* container and the placement operators in the parent's stream.
isolated_group_end(ref, inner, inner_rc, opts, sz, parent, parent_rc, ch) ==
    LET reg == add_x_object(parent_rc, ref)
    IN  [content |-> x_object(transform(parent, to_pdf_transform(Identity)), reg.name),
         rc |-> reg.rc,
         chunk |-> Append(ch, Object(ref, "Form", finish_content(inner, opts),
                                     bbox_pdf_rect(sz), to_pdf_transform(Identity),
                                     opts.compress, rc_finish(inner_rc)))]

GroupBegin ==
    /\ pc = "render"
    /\ tree[pos] \in GroupKinds
    /\ IF tree[pos] = "Group"
       THEN LET b == inline_group_begin(Top(contents))
            IN  /\ contents' = SetTop(contents, b.content)
                /\ IF b.res = "Ok"
                   THEN /\ groups' = Append(groups, [kind |-> "Group", ref |-> 0])
                        /\ pos' = pos + 1
                        /\ UNCHANGED <<pc, ret, raised>>
                   ELSE /\ raised' = b.res
                        /\ ret' = b.res
                        /\ pc' = AfterError(groups)
                        /\ UNCHANGED <<groups, pos>>
                /\ UNCHANGED <<rcs, next_ref>>
       ELSE LET a == alloc_ref(next_ref)
            IN  /\ groups' = Append(groups, [kind |-> "GroupIsolated", ref |-> a.ref])
                /\ contents' = Append(contents, NewContent)
                /\ rcs' = Append(rcs, NewResourceContainer)
                /\ next_ref' = a.next
                /\ pos' = pos + 1
                /\ UNCHANGED <<pc, ret, raised>>
    /\ UNCHANGED <<inputs, options, run, chunk, x_ref, result, ret_ref, finished, log,
                   first>>

GroupEnd ==
    /\ pc = "render"
    /\ tree[pos] = "End"
    /\ IF Top(groups).kind = "Group"
       THEN /\ contents' = SetTop(contents, restore_state(Top(contents)))
            /\ UNCHANGED <<rcs, chunk>>
       ELSE LET e == isolated_group_end(Top(groups).ref, Top(contents), Top(rcs), options,
                                        size, Top(Pop(contents)), Top(Pop(rcs)), chunk)
            IN  /\ contents' = SetTop(Pop(contents), e.content)
                /\ rcs' = SetTop(Pop(rcs), e.rc)
                /\ chunk' = e.chunk
    /\ groups' = Pop(groups)
    /\ pos' = pos + 1
    /\ IF Len(groups) = 1
       THEN pc' = "stream_end" /\ ret' = "Ok"
       ELSE UNCHANGED <<pc, ret>>
    /\ UNCHANGED <<inputs, options, run, next_ref, x_ref, result, ret_ref, finished,
                   raised, log, first>>

\* A child failed: group::render returns the error with `?`, emitting nothing.
GroupPropagate ==
    /\ pc = "unwind"
    /\ groups # <<>>
    /\ groups' = Pop(groups)
    /\ IF Top(groups).kind = "GroupIsolated"
       THEN contents' = Pop(contents) /\ rcs' = Pop(rcs)
       ELSE UNCHANGED <<contents, rcs>>
    /\ pc' = AfterError(Pop(groups))
    /\ UNCHANGED <<inputs, options, run, pos, next_ref, chunk, x_ref, ret, result,
                   ret_ref, finished, raised, log, first>>

(***************************************************************************)
(* The dispatcher on a leaf node.                                          *)
(***************************************************************************)
\* The dispatcher returns what the arm returned; an error starts unwinding.
Dispatched(o) ==
    /\ contents' = SetTop(contents, o.content)
    /\ rcs' = SetTop(rcs, o.rc)
    /\ chunk' = o.chunk
    /\ next_ref' = o.next
    /\ IF o.res = "Ok"
       THEN pos' = pos + 1 /\ UNCHANGED <<pc, ret, raised>>
       ELSE raised' = o.res /\ ret' = o.res /\ pc' = "unwind" /\ UNCHANGED pos
    /\ UNCHANGED <<inputs, options, run, groups, x_ref, result, ret_ref, finished, first>>

RenderPath ==
    /\ pc = "render"
    /\ tree[pos] = "Path"
    /\ Dispatched(render_path(pos, Top(contents), Top(rcs), chunk, next_ref,
                              accumulated_transform))
    /\ UNCHANGED log

RenderImage ==
    /\ pc = "render"
    /\ tree[pos] \in {"ImageVisible", "ImageHidden"}
    /\ \E answer \in ExternalImages \cup {NoneExt} :
          LET r == render_image(tree[pos] = "ImageVisible", answer, options,
                                Top(contents), Top(rcs), chunk, next_ref)
          IN  /\ Dispatched(r.out)
              /\ log' = log \o Events(r.events, pos, provider_result(options, answer))

RenderText ==
    /\ pc = "render"
    /\ tree[pos] = "Text"
    /\ Dispatched(render_text(pos, options, Top(contents), Top(rcs), chunk, next_ref,
                              accumulated_transform))
    /\ UNCHANGED log

(***************************************************************************)
(* The entry points, from the return of the call they made.               *)
(***************************************************************************)
TreeToStreamEnd ==
    /\ pc = "stream_end"
    /\ LET e == tree_to_stream_end(ret, Top(contents))
       IN  /\ contents' = SetTop(contents, e.content)
           /\ ret' = e.res
           /\ IF entry.fn = "tree_to_xobject"
              THEN pc' = "xobject_end" /\ UNCHANGED result
              ELSE pc' = "done" /\ result' = e.res
    /\ UNCHANGED <<inputs, options, run, pos, groups, rcs, next_ref, chunk, x_ref,
                   ret_ref, finished, raised, log, first>>

TreeToXObjectEnd ==
    /\ pc = "xobject_end"
    /\ LET e == tree_to_xobject_end(ret, x_ref, size, options, Top(contents), Top(rcs),
                                    chunk)
       IN  /\ chunk' = e.chunk
           /\ result' = e.res
           /\ ret_ref' = e.ref
           /\ finished' = finished + e.finished
    /\ pc' = "done"
    /\ UNCHANGED <<inputs, options, run, pos, groups, contents, rcs, next_ref, x_ref,
                   ret, raised, log, first>>

(***************************************************************************)
(* The same tree converted again with no provider configured               *)
(* (tests/src/api.rs, external_image_provider_fallback).                   *)
(***************************************************************************)
Outcome ==
    [result |-> result, ref |-> ret_ref, ops |-> contents[1].ops, chunk |-> chunk,
     entries |-> rcs[1].entries,
     declined |-> \A i \in 1..Len(log) : log[i].ev # "substituted"]

Rerun ==
    /\ pc = "done"
    /\ run = 1
    /\ options.image_provider
    /\ first' = Outcome
    /\ run' = 2
    /\ options' = [options EXCEPT !.image_provider = FALSE]
    /\ pc' = "start"
    /\ pos' = 1
    /\ groups' = <<>>
    /\ contents' = CallerContents(entry)
    /\ rcs' = CallerContainers(entry)
    /\ next_ref' = 1
    /\ chunk' = <<>>
    /\ x_ref' = 0
    /\ ret' = "None"
    /\ result' = "None"
    /\ ret_ref' = 0
    /\ finished' = 0
    /\ raised' = "None"
    /\ log' = <<>>
    /\ UNCHANGED inputs

Next ==
    \/ TreeToXObjectBegin
    \/ TreeToStreamBegin
    \/ GroupBegin
    \/ GroupEnd
    \/ GroupPropagate
    \/ RenderPath
    \/ RenderImage
    \/ RenderText
    \/ TreeToStreamEnd
    \/ TreeToXObjectEnd
    \/ Rerun

Spec == Init /\ [][Next]_vars

(***************************************************************************)
(* Properties.                                                             *)
(***************************************************************************)
Images == {"ImageVisible", "ImageHidden"}

CountOp(ops, o) == Cardinality({i \in 1..Len(ops) : ops[i].op = o})

\* Nesting depth after the first k operators of ops.
DepthAfter(ops, k) ==
    Cardinality({i \in 1..k : ops[i].op = "q"}) - Cardinality({i \in 1..k : ops[i].op = "Q"})

\* Every stream written so far: the active ones and those stored in the chunk.
Streams ==
    {contents[k].ops : k \in 1..Len(contents)}
    \cup {chunk[k].stream.ops : k \in 1..Len(chunk)}

EventsAt(p, e) == {i \in 1..Len(log) : log[i].pos = p /\ log[i].ev = e}

\* This step dispatched an image node.
ImageStep ==
    /\ pc = "render"
    /\ tree[pos] \in Images
    /\ Len(log') > Len(log)

\* What the provider gave in the image dispatch this step made.
StepExt == log'[Len(log')].ext

\* The placement sequence of an external image of size w x h under name n.
Placement(n, w, h) ==
    <<OpSave, Op("cm", <<>>, <<w, 0, 0, -h, 0, h>>), Op("Do", n, <<>>), OpRestore>>

HasEntry(rc, cat, name, ref) ==
    \E i \in 1..Len(rc.entries) :
        rc.entries[i] = [cat |-> cat, name |-> name, ref |-> ref]

NonPositive(x) == x.fin /\ x.v <= 0

Positive(x) == x.fin /\ x.v > 0

\* C1: when an entry point has returned, with success or with an error, the
\* saves and restores of every content stream are balanced.
C1_SaveRestoreBalanced ==
    pc = "done" => \A ops \in Streams : CountOp(ops, "q") = CountOp(ops, "Q")

C3_InvalidDescriptorFails ==
    \A i \in 1..Len(log) :
        (/\ log[i].ev = "substituted"
         /\ \/ NonPositive(log[i].ext.width)
            \/ NonPositive(log[i].ext.height)
            \/ ~Utf8Valid(log[i].ext.name, 1)) =>
            /\ raised = "InvalidImage"
            /\ pc = "done" => result = "InvalidImage"

\* C3, amended: the same for a visible image node.
C3_VisibleInvalidDescriptorFails ==
    \A i \in 1..Len(log) :
        (/\ log[i].ev = "substituted"
         /\ tree[log[i].pos] = "ImageVisible"
         /\ \/ NonPositive(log[i].ext.width)
            \/ NonPositive(log[i].ext.height)
            \/ ~Utf8Valid(log[i].ext.name, 1)) =>
            /\ raised = "InvalidImage"
            /\ pc = "done" => result = "InvalidImage"

\* tree_to_xobject returned InvalidImage for a name that is not UTF-8, given
\* for a visible image inside a nested group.
C3_Witness ==
    /\ pc = "done"
    /\ entry.fn = "tree_to_xobject"
    /\ result = "InvalidImage"
    /\ \E i \in 1..Len(log) :
          /\ log[i].ev = "substituted"
          /\ tree[log[i].pos] = "ImageVisible"
          /\ tree[log[i].pos - 1] \in GroupKinds
          /\ log[i].pos > 2
          /\ ~Utf8Valid(log[i].ext.name, 1)
          /\ Positive(log[i].ext.width)

\* C4: a conversion whose provider declined every image node ends as the
\* conversion of the same tree with no provider: same result, same
\* operators, same chunk objects, same resource registrations.
C4_DecliningEqualsNoProvider ==
    (run = 2 /\ pc = "done" /\ first.declined) => Outcome = first

\* Both conversions ended Ok, the first with every image declined, and the
\* image leaf renderer encoded an image.
C4_Witness ==
    /\ run = 2
    /\ pc = "done"
    /\ first.declined
    /\ result = "Ok"
    /\ options.feature_image
    /\ \E p \in 1..Len(tree) : tree[p] = "ImageVisible"
    /\ \E k \in 1..Len(chunk) : chunk[k].kind = "Image"

NoDuplicateNames(entries) ==
    \A i, j \in 1..Len(entries) :
        i # j => ~(entries[i].cat = entries[j].cat /\ entries[i].name = entries[j].name)

PathsDispatched ==
    {p \in 1..(pos - 1) :
        \/ tree[p] = "Path"
        \/ tree[p] = "Text" /\ options.feature_text /\ ~options.embed_text}

PathsOf(ops) == {ops[i].name[1] : i \in {k \in 1..Len(ops) : ops[k].op = "path"}}

\* Every path dispatched so far is painted, each stream in tree order.
PathsInTreeOrder ==
    raised = "None" =>
        /\ UNION {PathsOf(ops) : ops \in Streams} = PathsDispatched
        /\ \A ops \in Streams : \A i, j \in 1..Len(ops) :
              (i < j /\ ops[i].op = "path" /\ ops[j].op = "path") =>
                  ops[i].name[1] < ops[j].name[1]

\* C6: with image support compiled out, an image node the provider does not
\* substitute is skipped with success, changing neither stream, chunk,
\* container nor allocator, and the paths are still painted in tree order.
C6_DisabledImagesSkipped ==
    [][~options.feature_image =>
          /\ (ImageStep /\ StepExt = NoneExt) =>
                /\ log'[Len(log')].ev = "skipped"
                /\ UNCHANGED <<contents, rcs, chunk, next_ref, raised, pc>>
                /\ pos' = pos + 1
          /\ PathsInTreeOrder']_vars

\* With image support compiled out, an image was skipped and the path after
\* it was painted.
C6_Witness ==
    /\ ~options.feature_image
    /\ pc = "done"
    /\ result = "Ok"
    /\ \E p \in 1..Len(tree) : tree[p] \in Images /\ tree[p + 1] = "Path"
                               /\ EventsAt(p, "skipped") # {}
    /\ \E ops \in Streams : PathsOf(ops) # {}

OpenRefs == {groups[k].ref : k \in {g \in 1..Len(groups) : groups[g].kind = "GroupIsolated"}}

\* C7: no two objects of the chunk share a reference, every reference comes
\* from the allocator, and tree_to_xobject's own reference is no other
\* object's and is the one it returns.
C7_ReferencesUnique ==
    /\ \A i, j \in 1..Len(chunk) : i # j => chunk[i].ref # chunk[j].ref
    /\ \A i \in 1..Len(chunk) : chunk[i].ref >= 1 /\ chunk[i].ref < next_ref
    /\ \A r \in OpenRefs : r # x_ref /\ r < next_ref
                           /\ \A i \in 1..Len(chunk) : chunk[i].ref # r
    /\ \A i \in 1..Len(chunk) :
          chunk[i].ref = x_ref => (pc = "done" /\ result = "Ok" /\ i = Len(chunk))
    /\ (pc = "done" /\ result = "Ok" /\ entry.fn = "tree_to_xobject") =>
          (ret_ref = x_ref /\ chunk[Len(chunk)].ref = x_ref)

\* tree_to_xobject returned Ok with at least three objects in the chunk.
C7_Witness ==
    /\ pc = "done"
    /\ result = "Ok"
    /\ entry.fn = "tree_to_xobject"
    /\ Len(chunk) >= 3

\* C8, as stated: every dispatched image node is offered to a configured
\* provider exactly once, before the leaf renderer or the placement; it is
\* then either substituted or declined; the image leaf renderer runs exactly
\* when it was declined.
C8_OfferedThenLeafIffDeclined ==
    \A p \in 1..Len(tree) :
        (tree[p] \in Images /\ (p < pos \/ \E i \in 1..Len(log) : log[i].pos = p)) =>
            /\ Cardinality(EventsAt(p, "offered")) = (IF options.image_provider THEN 1 ELSE 0)
            /\ Cardinality(EventsAt(p, "substituted") \cup EventsAt(p, "declined")) = 1
            /\ \A i \in EventsAt(p, "offered") :
                  \A j \in 1..Len(log) : (log[j].pos = p /\ j # i) => i < j
            /\ Cardinality(EventsAt(p, "leaf")) <= 1
            /\ EventsAt(p, "leaf") # {} <=> EventsAt(p, "declined") # {}

\* C8, amended: the image leaf renderer runs exactly when the node was
\* declined and image support is compiled in.
C8_OfferedThenLeafIffDeclinedAndEnabled ==
    \A p \in 1..Len(tree) :
        (tree[p] \in Images /\ (p < pos \/ \E i \in 1..Len(log) : log[i].pos = p)) =>
            /\ Cardinality(EventsAt(p, "offered")) = (IF options.image_provider THEN 1 ELSE 0)
            /\ Cardinality(EventsAt(p, "substituted") \cup EventsAt(p, "declined")) = 1
            /\ \A i \in EventsAt(p, "offered") :
                  \A j \in 1..Len(log) : (log[j].pos = p /\ j # i) => i < j
            /\ Cardinality(EventsAt(p, "leaf")) <= 1
            /\ EventsAt(p, "leaf") # {} <=>
                  (EventsAt(p, "declined") # {} /\ options.feature_image)

\* A hidden image was offered, declined and handed to the leaf renderer, and
\* a visible one was substituted.
C8_Witness ==
    /\ options.image_provider
    /\ options.feature_image
    /\ pc = "done"
    /\ \E p, q \in 1..Len(tree) :
          /\ tree[p] = "ImageHidden"
          /\ EventsAt(p, "offered") # {} /\ EventsAt(p, "leaf") # {}
          /\ tree[q] = "ImageVisible"
          /\ EventsAt(q, "substituted") # {} /\ EventsAt(q, "leaf") = {}

\* tree_to_stream has returned Ok.
StreamSucceeded ==
    \/ entry.fn = "tree_to_stream" /\ pc = "done" /\ result = "Ok"
    \/ entry.fn = "tree_to_xobject" /\ pc \in {"xobject_end", "done"} /\ ret = "Ok"

\* C9: a successful tree_to_stream wrote a save first, the axis flip by the
\* tree's height second, a restore last; that restore is the one matching the
\* first save, and the axis flip is applied once.
C9_SaveFlipRootRestore ==
    StreamSucceeded =>
        LET ops == contents[1].ops
            n == Len(ops)
        IN  /\ n >= 3
            /\ ops[1] = OpSave
            /\ ops[2] = Op("cm", <<>>, <<1, 0, 0, -1, 0, size.height>>)
            /\ ops[n] = OpRestore
            /\ \A k \in 1..(n - 1) : DepthAfter(ops, k) >= 1
            /\ DepthAfter(ops, n) = 0
            /\ Cardinality({k \in 1..n :
                    ops[k] = Op("cm", <<>>, <<1, 0, 0, -1, 0, size.height>>)}) = 1

\* tree_to_stream returned Ok for a tree with several nodes.
C9_Witness ==
    /\ StreamSucceeded
    /\ entry.fn = "tree_to_stream"
    /\ Len(contents[1].ops) >= 9

\* C10: an error raised in the tree is what every level returns and what the
\* entry point returns; a failed tree_to_xobject inserts no wrapper object and
\* finishes no container; a successful one inserts exactly one wrapper under
\* the returned reference and finishes its container once.
C10_ErrorsPropagateUnchanged ==
    /\ raised # "None" =>
          (ret = raised /\ pc \in {"unwind", "stream_end", "xobject_end", "done"})
    /\ pc = "done" => result = (IF raised = "None" THEN "Ok" ELSE raised)
    /\ (pc = "done" /\ entry.fn = "tree_to_xobject") =>
          IF result = "Ok"
          THEN /\ finished = 1
               /\ ret_ref = x_ref
               /\ Cardinality({i \in 1..Len(chunk) : chunk[i].ref = ret_ref}) = 1
               /\ chunk[Len(chunk)].kind = "Form"
               /\ chunk[Len(chunk)].resources = rcs[1].entries
          ELSE /\ finished = 0
               /\ ret_ref = 0
               /\ \A i \in 1..Len(chunk) : chunk[i].ref # x_ref

\* tree_to_xobject returned InvalidImage after objects had been inserted and
\* operators written.
C10_Witness ==
    /\ pc = "done"
    /\ entry.fn = "tree_to_xobject"
    /\ result = "InvalidImage"
    /\ chunk # <<>>
    /\ Len(contents[1].ops) >= 4

====
